---- MODULE Spec2Model ----
\* Job-orchestration pipeline of the video platform: the backend's upload
\* handler fans one video out into four jobs (VideoService.ScheduleProcessingJobs),
\* the Redis list "video_jobs" hands the messages to the workers
\* (RedisClient.Enqueue / Dequeue), each worker runs processJobs in a loop and
\* records the outcome through VideoProcessor / MongoClient.
\* Shared state is the two MongoDB collections, the Redis list and the object
\* storage; every store call is one atomic step, steps of different processes
\* interleave freely.
EXTENDS Integers, Sequences, FiniteSets, TLC

\* ---------------------------------------------------------------- bounds
MaxVideos == 1
NumWorkers == 2

Videos == 1..MaxVideos
Workers == 1..NumWorkers

\* ------------------------------------------------------------- constants
VideoStatusUploaded == "uploaded"
VideoStatusProcessing == "processing"
VideoStatusReady == "ready"
VideoStatusFailed == "failed"

JobStatusPending == "pending"
JobStatusProcessing == "processing"
JobStatusCompleted == "completed"
JobStatusFailed == "failed"

JobTypeTranscode == "transcode"
JobTypeThumbnail == "thumbnail"

\* A fan-out that leaves the 1080p tier out.
qualitiesWithout1080p == <<"480p", "720p">>

\* qualities := []string{"480p", "720p", "1080p"}
qualities == <<"480p", "720p", "1080p">>

\* The jobs ScheduleProcessingJobs creates, in order: the thumbnail job, then
\* one transcode job per quality ("" is no quality).
FanOut ==
    <<[type |-> JobTypeThumbnail, quality |-> ""]>> \o
    [i \in 1..Len(qualities) |-> [type |-> JobTypeTranscode, quality |-> qualities[i]]]

\* The payload map stored on the Job: video_id, and quality for a transcode.
JobPayload(videoID, spec) ==
    {<<"video_id", videoID>>} \cup
    (IF spec.type = JobTypeTranscode THEN {<<"quality", spec.quality>>} ELSE {})

\* The payload map put on the wire by PublishTranscodeJob / PublishThumbnailJob.
WirePayload(spec) ==
    IF spec.type = JobTypeTranscode THEN {<<"quality", spec.quality>>} ELSE {}

\* primitive.NewObjectID(): a fresh identifier; the k-th job of video v.
NewObjectID(v, k) == (v - 1) * Len(FanOut) + k

JobIds == 1..(MaxVideos * Len(FanOut))

\* ObjectID.Hex() and primitive.ObjectIDFromHex: the id travels as text.
Hex(id) == ToString(id)

ObjectIDFromHex(s) ==
    IF \E id \in JobIds \cup Videos : Hex(id) = s
    THEN [err |-> "", id |-> CHOOSE id \in JobIds \cup Videos : Hex(id) = s]
    ELSE [err |-> "invalid hex", id |-> 0]

\* ------------------------------------------------------------------ state
VARIABLES
    videos,     \* videos collection: video id -> document
    jobs,       \* jobs collection: job id -> document
    queue,      \* Redis list "video_jobs", index 1 is the left end
    objects,    \* object storage: set of stored object names
    sched,      \* per video: the upload handler's position and locals
    worker,     \* per worker: processJobs' position and locals
    enq,        \* history: job ids in the order their messages were pushed
    deq,        \* history: <<worker, jobData>> in the order of the pops
    cjReturns,  \* history: <<job id, err>> for every CompleteJob call that returned
    storage,    \* history: <<job id, call>> for every object-storage call of a task
    statusLog   \* history: per video, the statuses its document went through

vars == <<videos, jobs, queue, objects, sched, worker, enq, deq, cjReturns,
          storage, statusLog>>

\* ---------------------------------------------------------------- entities
\* entities.NewVideo: status uploaded, no formats, no thumbnails.
NewVideo ==
    [status |-> VideoStatusUploaded, formats |-> <<>>, thumbnails |-> <<>>]

\* An UpdateStatus on a copy of the video (value receiver): the status is lost.
UpdateStatusOnCopy(video, status) == video

\* Video.UpdateStatus
UpdateStatus(video, status) == [video EXCEPT !.status = status]

\* The Video document has no error_message field (entities.Video): the error
\* text recorded for a video is the field's value when a document carries it.
VideoErrorMessage(v) ==
    IF "error_message" \in DOMAIN videos[v] THEN videos[v].error_message ELSE ""

\* entities.NewJob: pending, progress 0, no worker, no error, timestamps
\* created_at = updated_at = now. Time is the job's own logical clock: the
\* number of writes the document has seen; 0 stands for a nil timestamp.
NewJob(videoID, jobType, payload) ==
    [video_id |-> videoID, type |-> jobType, status |-> JobStatusPending,
     progress |-> 0, error_message |-> "", worker_id |-> 0,
     payload |-> payload, created_at |-> 1, updated_at |-> 1,
     started_at |-> 0, completed_at |-> 0]

\* time.Now() on a write to a job document.
Now(doc) == doc.updated_at + 1

\* ------------------------------------------------------- wire message
\* JobMessage{ID, VideoID, Type, Payload}
JobMessage(id, videoID, type, payload) ==
    [ID |-> id, VideoID |-> videoID, Type |-> type, Payload |-> payload]

NoJob == JobMessage("", "", "", {})

\* json.Marshal(jobMessage): the bytes on the queue, the fields in order.
Marshal(m) == <<m.ID, m.VideoID, m.Type, m.Payload>>

\* An Unmarshal that takes any bytes and leaves the fields it cannot read empty.
UnmarshalLenient(jobData) ==
    IF Len(jobData) = Len(Marshal(NoJob))
    THEN [err |-> "", job |-> JobMessage(jobData[1], jobData[2], jobData[3], jobData[4])]
    ELSE [err |-> "", job |-> NoJob]

\* json.Unmarshal(jobData, &job)
Unmarshal(jobData) ==
    IF Len(jobData) = Len(Marshal(NoJob))
    THEN [err |-> "", job |-> JobMessage(jobData[1], jobData[2], jobData[3], jobData[4])]
    ELSE [err |-> "invalid character", job |-> NoJob]

\* job.Payload["quality"].(string): the value under the key, panics without one.
HasQuality(payload) == \E kv \in payload : kv[1] = "quality"
Quality(payload) == (CHOOSE kv \in payload : kv[1] = "quality")[2]

\* JobPublisher.PublishThumbnailJob / PublishTranscodeJob build this message.
PublishedMessage(videoID, jobID, spec) ==
    JobMessage(Hex(jobID), Hex(videoID), spec.type, WirePayload(spec))

\* ------------------------------------------------------------ work queue
\* An Enqueue that pushes at the right end (RPUSH).
EnqueueRight(q, jobData) == q \o <<jobData>>

\* An Enqueue that pushes the message a second time (a blind retry).
EnqueueTwice(q, jobData) == <<jobData, jobData>> \o q

\* RedisClient.Enqueue (backend): LPUSH, the new element becomes the left end.
Enqueue(q, jobData) == <<jobData>> \o q

\* A Dequeue that reads the right end and leaves it on the list.
DequeuePeek(q, up) ==
    IF ~up THEN [data |-> <<>>, err |-> "dial tcp: connection refused", queue |-> q]
    ELSE IF Len(q) = 0
    THEN [data |-> <<>>, err |-> "", queue |-> q]
    ELSE [data |-> q[Len(q)], err |-> "", queue |-> q]

\* A Dequeue that passes redis.Nil on to its caller as the error.
DequeueNilError(q, up) ==
    IF ~up THEN [data |-> <<>>, err |-> "dial tcp: connection refused", queue |-> q]
    ELSE IF Len(q) = 0
    THEN [data |-> <<>>, err |-> "redis: nil", queue |-> q]
    ELSE [data |-> q[Len(q)], err |-> "", queue |-> SubSeq(q, 1, Len(q) - 1)]

\* A Dequeue that puts the element it returns back at the left end, to be
\* handed out again (a rotation of the list).
DequeueRotate(q, up) ==
    IF ~up THEN [data |-> <<>>, err |-> "dial tcp: connection refused", queue |-> q]
    ELSE IF Len(q) = 0
    THEN [data |-> <<>>, err |-> "", queue |-> q]
    ELSE [data |-> q[Len(q)], err |-> "", queue |-> <<q[Len(q)]>> \o SubSeq(q, 1, Len(q) - 1)]

\* RedisClient.Dequeue (worker): BRPOP takes the right end; redis.Nil (timeout
\* on an empty list) is returned as (nil, nil), any other error as it is. up
\* tells whether Redis can be reached; the call has a context of its own.
Dequeue(q, up) ==
    IF ~up THEN [data |-> <<>>, err |-> "dial tcp: connection refused", queue |-> q]
    ELSE IF Len(q) = 0
    THEN [data |-> <<>>, err |-> "", queue |-> q]
    ELSE [data |-> q[Len(q)], err |-> "", queue |-> SubSeq(q, 1, Len(q) - 1)]

\* ------------------------------------------------------------- contexts
\* A context.Context is modelled by its Err(): "" while it is live,
\* "context canceled" once cancel() was called. A driver call made with a
\* context that is done returns that error and does nothing.
Background == ""
Canceled == "context canceled"

\* ------------------------------------------------------------- job store
\* An UpdateJobStatus that leaves worker_id out of its $set.
UpdateJobStatusNoWorker(ctx, coll, jobID, status, workerID, progress) ==
    LET oid == ObjectIDFromHex(jobID) IN
    IF oid.err # "" THEN [err |-> oid.err, jobs |-> coll]
    ELSE IF ctx # "" THEN [err |-> ctx, jobs |-> coll]
    ELSE IF oid.id \notin DOMAIN coll THEN [err |-> "", jobs |-> coll]
    ELSE LET d0 == coll[oid.id]
             d1 == [d0 EXCEPT !.status = status, !.progress = progress,
                              !.updated_at = Now(d0)]
             d3 == IF status = JobStatusProcessing
                   THEN [d1 EXCEPT !.started_at = Now(d0)]
                   ELSE IF status \in {JobStatusCompleted, JobStatusFailed}
                        THEN [d1 EXCEPT !.completed_at = Now(d0)]
                        ELSE d1
         IN [err |-> "", jobs |-> [coll EXCEPT ![oid.id] = d3]]

\* An UpdateJobStatus that leaves completed_at out of its $set.
UpdateJobStatusNoCompletedAt(ctx, coll, jobID, status, workerID, progress) ==
    LET oid == ObjectIDFromHex(jobID) IN
    IF oid.err # "" THEN [err |-> oid.err, jobs |-> coll]
    ELSE IF ctx # "" THEN [err |-> ctx, jobs |-> coll]
    ELSE IF oid.id \notin DOMAIN coll THEN [err |-> "", jobs |-> coll]
    ELSE LET d0 == coll[oid.id]
             d1 == [d0 EXCEPT !.status = status, !.progress = progress,
                              !.updated_at = Now(d0)]
             d2 == IF workerID # 0 THEN [d1 EXCEPT !.worker_id = workerID] ELSE d1
             d3 == IF status = JobStatusProcessing
                   THEN [d2 EXCEPT !.started_at = Now(d0)]
                   ELSE d2
         IN [err |-> "", jobs |-> [coll EXCEPT ![oid.id] = d3]]

\* MongoClient.UpdateJobStatus: UpdateOne({_id}, $set{...}); a filter that
\* matches no document changes nothing and is no error. workerID 0 is "".
UpdateJobStatus(ctx, coll, jobID, status, workerID, progress) ==
    LET oid == ObjectIDFromHex(jobID) IN
    IF oid.err # "" THEN [err |-> oid.err, jobs |-> coll]
    ELSE IF ctx # "" THEN [err |-> ctx, jobs |-> coll]
    ELSE IF oid.id \notin DOMAIN coll THEN [err |-> "", jobs |-> coll]
    ELSE LET d0 == coll[oid.id]
             d1 == [d0 EXCEPT !.status = status, !.progress = progress,
                              !.updated_at = Now(d0)]
             d2 == IF workerID # 0 THEN [d1 EXCEPT !.worker_id = workerID] ELSE d1
             d3 == IF status = JobStatusProcessing
                   THEN [d2 EXCEPT !.started_at = Now(d0)]
                   ELSE IF status \in {JobStatusCompleted, JobStatusFailed}
                        THEN [d2 EXCEPT !.completed_at = Now(d0)]
                        ELSE d2
         IN [err |-> "", jobs |-> [coll EXCEPT ![oid.id] = d3]]

\* A FailJob that leaves error_message out of its $set.
FailJobNoMessage(ctx, coll, jobID, errorMessage) ==
    LET oid == ObjectIDFromHex(jobID) IN
    IF oid.err # "" THEN [err |-> oid.err, jobs |-> coll]
    ELSE IF ctx # "" THEN [err |-> ctx, jobs |-> coll]
    ELSE IF oid.id \notin DOMAIN coll THEN [err |-> "", jobs |-> coll]
    ELSE LET d0 == coll[oid.id] IN
         [err |-> "",
          jobs |-> [coll EXCEPT ![oid.id] =
                       [d0 EXCEPT !.status = JobStatusFailed,
                                  !.completed_at = Now(d0),
                                  !.updated_at = Now(d0)]]]

\* MongoClient.FailJob: $set status failed, error_message, completed_at.
FailJob(ctx, coll, jobID, errorMessage) ==
    LET oid == ObjectIDFromHex(jobID) IN
    IF oid.err # "" THEN [err |-> oid.err, jobs |-> coll]
    ELSE IF ctx # "" THEN [err |-> ctx, jobs |-> coll]
    ELSE IF oid.id \notin DOMAIN coll THEN [err |-> "", jobs |-> coll]
    ELSE LET d0 == coll[oid.id] IN
         [err |-> "",
          jobs |-> [coll EXCEPT ![oid.id] =
                       [d0 EXCEPT !.status = JobStatusFailed,
                                  !.error_message = errorMessage,
                                  !.completed_at = Now(d0),
                                  !.updated_at = Now(d0)]]]

\* MongoClient.GetJob: FindOne({_id}); no document is an error.
GetJob(ctx, coll, jobID) ==
    LET oid == ObjectIDFromHex(jobID) IN
    IF oid.err # "" THEN [err |-> oid.err, video_id |-> 0]
    ELSE IF ctx # "" THEN [err |-> ctx, video_id |-> 0]
    ELSE IF oid.id \notin DOMAIN coll
         THEN [err |-> "mongo: no documents in result", video_id |-> 0]
         ELSE [err |-> "", video_id |-> coll[oid.id].video_id]

\* CountDocuments({video_id}) and CountDocuments({video_id, status: completed}),
\* the two reads of MongoClient.AreAllJobsCompleted.
CountJobs(coll, videoID) ==
    Cardinality({j \in DOMAIN coll : coll[j].video_id = videoID})

CountCompletedJobs(coll, videoID) ==
    Cardinality({j \in DOMAIN coll : coll[j].video_id = videoID
                                     /\ coll[j].status = JobStatusCompleted})

\* An AreAllJobsCompleted with the comparison the wrong way round.
AreAllJobsCompletedStrict(totalJobs, completedJobs) ==
    totalJobs > 0 /\ completedJobs > totalJobs

\* The result of MongoClient.AreAllJobsCompleted from its two counts.
AreAllJobsCompleted(totalJobs, completedJobs) ==
    totalJobs > 0 /\ totalJobs = completedJobs

\* ----------------------------------------------------------- video store
\* An UpdateVideoStatus that takes a status written a second time for an
\* invalid transition and marks the video failed.
UpdateVideoStatusExclusive(ctx, coll, videoID, status) ==
    LET oid == ObjectIDFromHex(videoID) IN
    IF oid.err # "" THEN [err |-> oid.err, videos |-> coll]
    ELSE IF ctx # "" THEN [err |-> ctx, videos |-> coll]
    ELSE IF oid.id \notin DOMAIN coll THEN [err |-> "", videos |-> coll]
    ELSE [err |-> "",
          videos |-> [coll EXCEPT ![oid.id].status =
                         IF @ = status THEN VideoStatusFailed ELSE status]]

\* MongoClient.UpdateVideoStatus: $set status on the matching document.
UpdateVideoStatus(ctx, coll, videoID, status) ==
    LET oid == ObjectIDFromHex(videoID) IN
    IF oid.err # "" THEN [err |-> oid.err, videos |-> coll]
    ELSE IF ctx # "" THEN [err |-> ctx, videos |-> coll]
    ELSE IF oid.id \notin DOMAIN coll THEN [err |-> "", videos |-> coll]
    ELSE [err |-> "", videos |-> [coll EXCEPT ![oid.id].status = status]]

\* An AddVideoFormat that $sets the formats list to the new entry.
AddVideoFormatSet(ctx, coll, videoID, quality, filename) ==
    LET oid == ObjectIDFromHex(videoID) IN
    IF oid.err # "" THEN [err |-> oid.err, videos |-> coll]
    ELSE IF ctx # "" THEN [err |-> ctx, videos |-> coll]
    ELSE IF oid.id \notin DOMAIN coll THEN [err |-> "", videos |-> coll]
    ELSE [err |-> "",
          videos |-> [coll EXCEPT ![oid.id].formats =
                         <<[quality |-> quality, filename |-> filename]>>]]

\* An AddVideoFormat that puts the new entry at the head of the list.
AddVideoFormatPrepend(ctx, coll, videoID, quality, filename) ==
    LET oid == ObjectIDFromHex(videoID) IN
    IF oid.err # "" THEN [err |-> oid.err, videos |-> coll]
    ELSE IF ctx # "" THEN [err |-> ctx, videos |-> coll]
    ELSE IF oid.id \notin DOMAIN coll THEN [err |-> "", videos |-> coll]
    ELSE [err |-> "",
          videos |-> [coll EXCEPT ![oid.id].formats =
                         <<[quality |-> quality, filename |-> filename]>> \o @]]

\* MongoClient.AddVideoFormat: $push formats.
AddVideoFormat(ctx, coll, videoID, quality, filename) ==
    LET oid == ObjectIDFromHex(videoID) IN
    IF oid.err # "" THEN [err |-> oid.err, videos |-> coll]
    ELSE IF ctx # "" THEN [err |-> ctx, videos |-> coll]
    ELSE IF oid.id \notin DOMAIN coll THEN [err |-> "", videos |-> coll]
    ELSE [err |-> "",
          videos |-> [coll EXCEPT ![oid.id].formats =
                         Append(@, [quality |-> quality, filename |-> filename])]]

\* An AddVideoThumbnail that returns nil without having pushed the entry.
AddVideoThumbnailLost(ctx, coll, videoID, filename) ==
    LET oid == ObjectIDFromHex(videoID) IN
    IF oid.err # "" THEN [err |-> oid.err, videos |-> coll]
    ELSE IF ctx # "" THEN [err |-> ctx, videos |-> coll]
    ELSE [err |-> "", videos |-> coll]

\* MongoClient.AddVideoThumbnail: $push thumbnails.
AddVideoThumbnail(ctx, coll, videoID, filename) ==
    LET oid == ObjectIDFromHex(videoID) IN
    IF oid.err # "" THEN [err |-> oid.err, videos |-> coll]
    ELSE IF ctx # "" THEN [err |-> ctx, videos |-> coll]
    ELSE IF oid.id \notin DOMAIN coll THEN [err |-> "", videos |-> coll]
    ELSE [err |-> "",
          videos |-> [coll EXCEPT ![oid.id].thumbnails = Append(@, filename)]]

\* MongoClient.GetVideo: FindOne({_id}).
GetVideo(ctx, coll, videoID) ==
    LET oid == ObjectIDFromHex(videoID) IN
    IF oid.err # "" THEN [err |-> oid.err]
    ELSE IF ctx # "" THEN [err |-> ctx]
    ELSE IF oid.id \notin DOMAIN coll
         THEN [err |-> "mongo: no documents in result"]
         ELSE [err |-> ""]

\* --------------------------------------------------------- object names
OriginalObject(videoID) == <<"videos/original/", videoID>>
ProcessedObject(videoID, quality) == <<"videos/processed/", videoID, quality>>
ThumbnailObject(videoID) == <<"thumbnails/", videoID, "_thumb.jpg">>

\* ------------------------------------------------------------------ init
\* The status history of a video after a write of status to its document.
Logged(log, v, status) ==
    IF v \in DOMAIN log /\ log[v][Len(log[v])] # status
    THEN [log EXCEPT ![v] = Append(@, status)]
    ELSE log

\* fmt.Errorf("msg: %w", err)
Errorf(msg, err) == msg \o ": " \o err

IdleSched == [pc |-> "idle", i |-> 0, video |-> NewVideo, err |-> ""]

\* A worker process at the head of its loop, nothing dequeued, its context live.
IdleWorker ==
    [pc |-> "poll", err |-> "", job |-> NoJob, processErr |-> "", videoID |-> "",
     totalJobs |-> 0, ret |-> "none", setReady |-> FALSE, args |-> <<>>,
     ctx |-> Background]

Init ==
    /\ videos = <<>>
    /\ jobs = <<>>
    /\ queue = <<>>
    /\ objects = {}
    /\ sched = [v \in Videos |-> IdleSched]
    /\ worker = [w \in Workers |-> IdleWorker]
    /\ enq = <<>>
    /\ deq = <<>>
    /\ cjReturns = {}
    /\ storage = {}
    /\ statusLog = <<>>

\* --------------------------------------------- backend: upload and fan-out
\* VideoHandler.UploadVideo up to the call of ScheduleProcessingJobs:
\* VideoService.CreateVideo stores the new video, the file goes to storage.
\* Video ids are handed out in upload order.
UploadVideo(v) ==
    /\ sched[v].pc = "idle"
    /\ v = Len(videos) + 1
    /\ videos' = Append(videos, NewVideo)
    /\ statusLog' = Append(statusLog, <<NewVideo.status>>)
    /\ objects' = objects \cup {OriginalObject(Hex(v))}
    /\ sched' = [sched EXCEPT ![v].pc = "get"]
    /\ UNCHANGED <<jobs, queue, worker, enq, deq, cjReturns, storage>>

\* VideoService.UpdateVideoStatus, first half: videoRepo.GetByID.
ScheduleGetVideo(v) ==
    /\ sched[v].pc = "get"
    /\ sched' = [sched EXCEPT ![v].pc = "update", ![v].video = videos[v]]
    /\ UNCHANGED <<videos, jobs, queue, objects, worker, enq, deq, cjReturns,
                   storage, statusLog>>

\* VideoService.UpdateVideoStatus, second half: video.UpdateStatus(processing)
\* and videoRepo.Update, which $sets the whole document read before.
ScheduleUpdateStatus(v) ==
    /\ sched[v].pc = "update"
    /\ LET video == UpdateStatus(sched[v].video, VideoStatusProcessing)
       IN /\ videos' = [videos EXCEPT ![v] = video]
          /\ statusLog' = Logged(statusLog, v, video.status)
    /\ sched' = [sched EXCEPT ![v].pc = "create", ![v].i = 1, ![v].video = NewVideo]
    /\ UNCHANGED <<jobs, queue, objects, worker, enq, deq, cjReturns, storage>>

\* The error ScheduleProcessingJobs returns when a step of the i-th job fails.
ScheduleError(step, spec, err) ==
    IF spec.type = JobTypeThumbnail
    THEN Errorf("failed to " \o step \o " thumbnail job", err)
    ELSE Errorf("failed to " \o step \o " transcode job for " \o spec.quality, err)

\* ScheduleProcessingJobs: entities.NewJob and jobRepo.Create for the i-th job.
ScheduleCreateJob(v) ==
    /\ sched[v].pc = "create"
    /\ LET spec == FanOut[sched[v].i]
           id == NewObjectID(v, sched[v].i)
       IN jobs' = (id :> NewJob(v, spec.type, JobPayload(Hex(v), spec))) @@ jobs
    /\ sched' = [sched EXCEPT ![v].pc = "publish"]
    /\ UNCHANGED <<videos, queue, objects, worker, enq, deq, cjReturns,
                   storage, statusLog>>

\* A jobRepo.Create that failed and whose error is not looked at.
ScheduleCreateJobIgnored(v) ==
    /\ sched[v].pc = "create"
    /\ sched' = [sched EXCEPT ![v].pc = "publish"]
    /\ UNCHANGED <<videos, jobs, queue, objects, worker, enq, deq, cjReturns,
                   storage, statusLog>>

\* ScheduleProcessingJobs: jobRepo.Create of the i-th job returns an error;
\* the error is returned and the handler answers 500. The InsertOne that
\* failed stored nothing, or stored the document and lost the reply.
ScheduleCreateJobFails(v) ==
    /\ sched[v].pc = "create"
    /\ LET spec == FanOut[sched[v].i]
           id == NewObjectID(v, sched[v].i)
       IN /\ \/ jobs' = jobs
             \/ jobs' = (id :> NewJob(v, spec.type, JobPayload(Hex(v), spec))) @@ jobs
          /\ sched' = [sched EXCEPT ![v].pc = "error",
                          ![v].err = ScheduleError("create", spec,
                                        Errorf("failed to create job", "server selection timeout"))]
    /\ UNCHANGED <<videos, queue, objects, worker, enq, deq, cjReturns,
                   storage, statusLog>>

\* ScheduleProcessingJobs: jobPublisher.Publish...Job for the i-th job, then
\* the next job, or return nil after the last one.
SchedulePublishJob(v) ==
    /\ sched[v].pc = "publish"
    /\ LET spec == FanOut[sched[v].i]
           jobData == Marshal(PublishedMessage(v, NewObjectID(v, sched[v].i), spec))
       IN /\ queue' = Enqueue(queue, jobData)
          /\ enq' = Append(enq, jobData)
    /\ sched' = [sched EXCEPT ![v].pc = IF sched[v].i = Len(FanOut) THEN "done" ELSE "create",
                              ![v].i = IF sched[v].i = Len(FanOut) THEN @ ELSE @ + 1]
    /\ UNCHANGED <<videos, jobs, objects, worker, deq, cjReturns, storage, statusLog>>

\* ScheduleProcessingJobs: the publish of the i-th job returns an error; the
\* job stays stored, the error is returned. The LPUSH that failed pushed
\* nothing, or pushed the message and lost the reply.
SchedulePublishJobFails(v) ==
    /\ sched[v].pc = "publish"
    /\ LET spec == FanOut[sched[v].i]
           jobData == Marshal(PublishedMessage(v, NewObjectID(v, sched[v].i), spec))
       IN /\ \/ queue' = queue /\ enq' = enq
             \/ queue' = Enqueue(queue, jobData) /\ enq' = Append(enq, jobData)
          /\ sched' = [sched EXCEPT ![v].pc = "error",
                          ![v].err = ScheduleError("publish", spec, "i/o timeout")]
    /\ UNCHANGED <<videos, jobs, objects, worker, deq, cjReturns, storage, statusLog>>

\* ------------------------------------------------------------ worker loop
\* processJobs returns err ("nil" is a nil error): main's loop goes straight
\* to its next iteration on nil and sleeps its back-off first on an error.
\* ret keeps the value returned, setReady whether the worker's last
\* CompleteJob wrote ready.
Return(w, err) ==
    [IdleWorker EXCEPT !.pc = IF err = "nil" THEN "poll" ELSE "sleep",
                       !.ret = err, !.setReady = worker[w].setReady,
                       !.ctx = worker[w].ctx]

\* processJobs up to StartJob: Dequeue, its error, the empty result,
\* json.Unmarshal. up is whether Redis answers. The loop's select takes
\* ctx.Done() once the context is canceled, so no poll starts after that.
ProcessJobs(w, up) ==
    /\ worker[w].pc = "poll"
    /\ worker[w].ctx = Background
    /\ LET r == Dequeue(queue, up)
           u == Unmarshal(r.data)
       IN /\ queue' = r.queue
          /\ IF r.err # "" \/ Len(r.data) = 0
             THEN /\ worker' = [worker EXCEPT ![w] = [Return(w, "nil") EXCEPT !.err = r.err]]
                  /\ deq' = deq
             ELSE /\ deq' = Append(deq, <<w, r.data>>)
                  /\ worker' = [worker EXCEPT ![w] =
                        IF u.err # ""
                        THEN [Return(w, u.err) EXCEPT !.setReady = FALSE]
                        ELSE [worker[w] EXCEPT !.pc = "start", !.job = u.job,
                                               !.err = "", !.setReady = FALSE]]
    /\ UNCHANGED <<videos, jobs, objects, sched, enq, cjReturns, storage, statusLog>>

\* An iteration of the loop while Redis answers.
PollQueue(w) == ProcessJobs(w, TRUE)

\* An iteration of the loop while Redis cannot be reached.
PollQueueDown(w) == ProcessJobs(w, FALSE)

\* A loop that ends on the first error processJobs returns.
BackOffExits(w) ==
    /\ worker[w].pc = "sleep"
    /\ worker' = [worker EXCEPT ![w].pc = "stopped"]
    /\ UNCHANGED <<videos, jobs, queue, objects, sched, enq, deq, cjReturns,
                   storage, statusLog>>

\* main's loop after processJobs returned an error: time.Sleep(5 * time.Second).
BackOff(w) ==
    /\ worker[w].pc = "sleep"
    /\ worker' = [worker EXCEPT ![w].pc = "poll"]
    /\ UNCHANGED <<videos, jobs, queue, objects, sched, enq, deq, cjReturns,
                   storage, statusLog>>

\* processJobs: processor.StartJob(ctx, job.ID, workerID).
StartJob(w) ==
    /\ worker[w].pc = "start"
    /\ LET r == UpdateJobStatus(worker[w].ctx, jobs, worker[w].job.ID,
                                JobStatusProcessing, w, 0)
       IN /\ jobs' = r.jobs
          /\ worker' = [worker EXCEPT ![w] =
                IF r.err # "" THEN Return(w, r.err) ELSE [@ EXCEPT !.pc = "exec"]]
    /\ UNCHANGED <<videos, queue, objects, sched, enq, deq, cjReturns,
                   storage, statusLog>>

\* ---------------------------------------------------------- task executors
\* Milestones that go back from 80 to 30 before the upload.
MilestonesBackwards(type) ==
    IF type = JobTypeTranscode
    THEN [download |-> 10, tool |-> 80, upload |-> 30]
    ELSE [download |-> 20, tool |-> 80, upload |-> 50]

\* Progress milestones written by TranscodeVideo and GenerateThumbnail.
Milestones(type) ==
    IF type = JobTypeTranscode
    THEN [download |-> 10, tool |-> 30, upload |-> 80]
    ELSE [download |-> 20, tool |-> 50, upload |-> 80]

\* Error texts of the executors' failure points, wrapped around the cause.
ExecError(type, step, err) ==
    CASE step = "get" -> Errorf("failed to get video info", err)
      [] step = "download" -> Errorf("failed to download original video", err)
      [] step = "tool" -> IF type = JobTypeTranscode
                          THEN Errorf("ffmpeg transcoding failed", err)
                          ELSE Errorf("thumbnail generation failed", err)
      [] step = "upload" -> IF type = JobTypeTranscode
                            THEN Errorf("failed to upload processed video", err)
                            ELSE Errorf("failed to upload thumbnail", err)
      [] OTHER -> Errorf("failed to update video record", err)

\* The cause of a failed storage call or tool run: the context's error when
\* the context is done, the call's own error otherwise.
Cause(ctx, err) == IF ctx # "" THEN ctx ELSE err

\* The executor returned err: processJobs goes on to its failure branch.
Failed(w, err) == [worker[w] EXCEPT !.pc = "fail", !.processErr = err]

\* A progress write: vp.mongoClient.UpdateJobStatus(ctx, jobID, "processing", "", p),
\* its error is not looked at.
Progress(ctx, coll, jobID, p) ==
    UpdateJobStatus(ctx, coll, jobID, JobStatusProcessing, 0, p).jobs

\* A switch on job.Type whose default runs the thumbnail executor.
ExecutorDefaultThumbnail(type) ==
    IF type = JobTypeTranscode THEN "TranscodeVideo" ELSE "GenerateThumbnail"

\* processJobs: the switch on job.Type; "" is the default case, which runs
\* no executor.
Executor(type) ==
    CASE type = JobTypeTranscode -> "TranscodeVideo"
      [] type = JobTypeThumbnail -> "GenerateThumbnail"
      [] OTHER -> ""

\* buildFFmpegArgs with a 1080p tier of its own.
buildFFmpegArgsWith1080p(inputPath, outputPath, quality) ==
    <<"-i", inputPath, "-c:v", "libx264", "-preset", "medium", "-crf", "23",
      "-c:a", "aac", "-b:a", "128k", "-movflags", "+faststart", "-y">> \o
    (CASE quality = "480p" -> <<"-vf", "scale=-2:480", "-maxrate", "1M", "-bufsize", "2M">>
       [] quality = "1080p" -> <<"-vf", "scale=-2:1080", "-maxrate", "4.5M", "-bufsize", "9M">>
       [] OTHER -> <<"-vf", "scale=-2:720", "-maxrate", "2.5M", "-bufsize", "5M">>) \o
    <<outputPath>>

\* VideoProcessor.buildFFmpegArgs: the common arguments, the arguments of the
\* quality (the switch with its four cases), the output path.
buildFFmpegArgs(inputPath, outputPath, quality) ==
    <<"-i", inputPath, "-c:v", "libx264", "-preset", "medium", "-crf", "23",
      "-c:a", "aac", "-b:a", "128k", "-movflags", "+faststart", "-y">> \o
    (CASE quality = "480p" -> <<"-vf", "scale=-2:480", "-maxrate", "1M", "-bufsize", "2M">>
       [] quality = "720p" -> <<"-vf", "scale=-2:720", "-maxrate", "2.5M", "-bufsize", "5M">>
       [] quality = "1080p" -> <<"-vf", "scale=-2:720", "-maxrate", "2.5M", "-bufsize", "5M">>
       [] OTHER -> <<"-vf", "scale=-2:720", "-maxrate", "2.5M", "-bufsize", "5M">>) \o
    <<outputPath>>

\* The arguments of GenerateThumbnail's ffmpeg run.
thumbnailArgs(inputPath, outputPath) ==
    <<"-i", inputPath, "-vf", "thumbnail,scale=320:240", "-frames:v", "1",
      "-q:v", "2", "-y", outputPath>>

\* The scratch files of a task.
LocalInputPath(type, videoID) ==
    IF type = JobTypeTranscode THEN "input_" \o videoID ELSE "thumb_input_" \o videoID

LocalOutputPath(type, videoID, quality) ==
    IF type = JobTypeTranscode
    THEN "output_" \o videoID \o "_" \o quality \o ".mp4"
    ELSE "thumb_" \o videoID \o "_thumb.jpg"

\* processJobs: the switch on job.Type; then the head of TranscodeVideo or
\* GenerateThumbnail: GetVideo and the first progress write.
Dispatch(w) ==
    /\ worker[w].pc = "exec"
    /\ LET job == worker[w].job
           ctx == worker[w].ctx
           get == GetVideo(ctx, videos, job.VideoID)
       IN
       IF Executor(job.Type) = ""
       THEN /\ worker' = [worker EXCEPT ![w] = Failed(w, "unknown job type: " \o job.Type)]
            /\ jobs' = jobs
       ELSE IF Executor(job.Type) = "TranscodeVideo" /\ ~HasQuality(job.Payload)
       THEN /\ worker' = [worker EXCEPT ![w].pc = "panic"]
            /\ jobs' = jobs
       ELSE IF get.err # ""
       THEN /\ worker' = [worker EXCEPT ![w] = Failed(w, ExecError(job.Type, "get", get.err))]
            /\ jobs' = jobs
       ELSE /\ worker' = [worker EXCEPT ![w].pc = "download"]
            /\ jobs' = Progress(ctx, jobs, job.ID,
                                Milestones(job.Type).download)
    /\ UNCHANGED <<videos, queue, objects, sched, enq, deq, cjReturns,
                   storage, statusLog>>

\* storageClient.DownloadFile and the copy to the scratch file; then the
\* second progress write.
Download(w) ==
    /\ worker[w].pc = "download"
    /\ LET job == worker[w].job
           ctx == worker[w].ctx
       IN /\ storage' = storage \cup {<<job.ID, "get">>}
          /\ \/ /\ ctx = Background
                /\ OriginalObject(job.VideoID) \in objects
                /\ worker' = [worker EXCEPT ![w].pc = "tool"]
                /\ jobs' = Progress(ctx, jobs, job.ID, Milestones(job.Type).tool)
             \/ /\ worker' = [worker EXCEPT ![w] =
                      Failed(w, ExecError(job.Type, "download",
                                          Cause(ctx, "The specified key does not exist.")))]
                /\ jobs' = jobs
    /\ UNCHANGED <<videos, queue, objects, sched, enq, deq, cjReturns, statusLog>>

\* The arguments are built, exec.CommandContext(ctx, "ffmpeg", args...).Run();
\* then the third progress write. A context that is done kills the run.
RunTool(w) ==
    /\ worker[w].pc = "tool"
    /\ LET job == worker[w].job
           ctx == worker[w].ctx
           quality == IF HasQuality(job.Payload) THEN Quality(job.Payload) ELSE ""
           input == LocalInputPath(job.Type, job.VideoID)
           output == LocalOutputPath(job.Type, job.VideoID, quality)
           args == IF job.Type = JobTypeTranscode
                   THEN buildFFmpegArgs(input, output, quality)
                   ELSE thumbnailArgs(input, output)
       IN \/ /\ ctx = Background
             /\ worker' = [worker EXCEPT ![w].pc = "upload", ![w].args = args]
             /\ jobs' = Progress(ctx, jobs, job.ID, Milestones(job.Type).upload)
          \/ /\ worker' = [worker EXCEPT ![w] =
                   [Failed(w, ExecError(job.Type, "tool", Cause(ctx, "exit status 1")))
                       EXCEPT !.args = args]]
             /\ jobs' = jobs
    /\ UNCHANGED <<videos, queue, objects, sched, enq, deq, cjReturns,
                   storage, statusLog>>

\* storageClient.UploadFile / UploadThumbnail of the result artifact.
Upload(w) ==
    /\ worker[w].pc = "upload"
    /\ LET job == worker[w].job
           ctx == worker[w].ctx
       IN /\ storage' = storage \cup {<<job.ID, "put">>}
          /\ \/ /\ ctx = Background
                /\ worker' = [worker EXCEPT ![w].pc = "record"]
                /\ objects' = objects \cup
                      {IF job.Type = JobTypeTranscode
                       THEN ProcessedObject(job.VideoID, Quality(job.Payload))
                       ELSE ThumbnailObject(job.VideoID)}
             \/ /\ worker' = [worker EXCEPT ![w] =
                      Failed(w, ExecError(job.Type, "upload",
                                          Cause(ctx, "connection reset by peer")))]
                /\ objects' = objects
    /\ UNCHANGED <<videos, jobs, queue, sched, enq, deq, cjReturns, statusLog>>

\* mongoClient.AddVideoFormat / AddVideoThumbnail; the executor returns nil.
RecordArtifact(w) ==
    /\ worker[w].pc = "record"
    /\ LET job == worker[w].job
           ctx == worker[w].ctx
           r == IF job.Type = JobTypeTranscode
                THEN AddVideoFormat(ctx, videos, job.VideoID, Quality(job.Payload),
                                    ProcessedObject(job.VideoID, Quality(job.Payload)))
                ELSE AddVideoThumbnail(ctx, videos, job.VideoID,
                                       ThumbnailObject(job.VideoID))
       IN /\ videos' = r.videos
          /\ worker' = [worker EXCEPT ![w] =
                IF r.err # "" THEN Failed(w, ExecError(job.Type, "record", r.err))
                ELSE [@ EXCEPT !.pc = "complete"]]
    /\ UNCHANGED <<jobs, queue, objects, sched, enq, deq, cjReturns,
                   storage, statusLog>>

\* --------------------------------------------------- recording the outcome
\* A failure branch that pushes the message back on the list for another try.
RecordFailureRequeue(w) ==
    /\ worker[w].pc = "fail"
    /\ LET r == FailJob(worker[w].ctx, jobs, worker[w].job.ID, worker[w].processErr)
       IN /\ jobs' = r.jobs
          /\ worker' = [worker EXCEPT ![w] =
                [Return(w, worker[w].processErr) EXCEPT !.err = r.err]]
    /\ queue' = Enqueue(queue, Marshal(worker[w].job))
    /\ UNCHANGED <<videos, objects, sched, enq, deq, cjReturns, storage, statusLog>>

\* processJobs, processErr != nil: processor.FailJob(ctx, job.ID, processErr.Error()),
\* which is MongoClient.FailJob and nothing else; its error is logged;
\* return processErr.
RecordFailure(w) ==
    /\ worker[w].pc = "fail"
    /\ LET r == FailJob(worker[w].ctx, jobs, worker[w].job.ID, worker[w].processErr)
       IN /\ jobs' = r.jobs
          /\ worker' = [worker EXCEPT ![w] =
                [Return(w, worker[w].processErr) EXCEPT !.err = r.err]]
    /\ UNCHANGED <<videos, queue, objects, sched, enq, deq, cjReturns,
                   storage, statusLog>>

\* VideoProcessor.CompleteJob: UpdateJobStatus(ctx, jobID, "completed", "", 100).
CompleteJob(w) ==
    /\ worker[w].pc = "complete"
    /\ LET r == UpdateJobStatus(worker[w].ctx, jobs, worker[w].job.ID,
                                JobStatusCompleted, 0, 100)
       IN /\ jobs' = r.jobs
          /\ worker' = [worker EXCEPT ![w] =
                IF r.err # "" THEN Return(w, r.err) ELSE [@ EXCEPT !.pc = "getjob"]]
          /\ cjReturns' = IF r.err # "" THEN cjReturns \cup {<<worker[w].job.ID, r.err>>}
                                         ELSE cjReturns
    /\ UNCHANGED <<videos, queue, objects, sched, enq, deq, storage, statusLog>>

\* VideoProcessor.CompleteJob: mongoClient.GetJob for the job's video_id; an
\* error ends the call with nil.
CompleteGetJob(w) ==
    /\ worker[w].pc = "getjob"
    /\ LET r == GetJob(worker[w].ctx, jobs, worker[w].job.ID)
       IN /\ worker' = [worker EXCEPT ![w] =
                IF r.err # "" THEN [Return(w, "nil") EXCEPT !.err = r.err]
                ELSE [@ EXCEPT !.pc = "count", !.videoID = Hex(r.video_id)]]
          /\ cjReturns' = IF r.err # "" THEN cjReturns \cup {<<worker[w].job.ID, "nil">>}
                                         ELSE cjReturns
    /\ UNCHANGED <<videos, jobs, queue, objects, sched, enq, deq, storage, statusLog>>

\* MongoClient.AreAllJobsCompleted, first read: the count of the video's jobs;
\* an error of the count ends CompleteJob with nil.
CountTotal(w) ==
    /\ worker[w].pc = "count"
    /\ IF worker[w].ctx # ""
       THEN /\ worker' = [worker EXCEPT ![w] =
                  [Return(w, "nil") EXCEPT !.err = worker[w].ctx]]
            /\ cjReturns' = cjReturns \cup {<<worker[w].job.ID, "nil">>}
       ELSE /\ worker' = [worker EXCEPT ![w].pc = "count_completed",
                   ![w].totalJobs = CountJobs(jobs, ObjectIDFromHex(worker[w].videoID).id)]
            /\ cjReturns' = cjReturns
    /\ UNCHANGED <<videos, jobs, queue, objects, sched, enq, deq, storage, statusLog>>

\* MongoClient.AreAllJobsCompleted, second read: the count of completed jobs,
\* and its result; CompleteJob returns nil when it is false or an error.
CountCompleted(w) ==
    /\ worker[w].pc = "count_completed"
    /\ LET completedJobs == CountCompletedJobs(jobs, ObjectIDFromHex(worker[w].videoID).id)
       IN IF worker[w].ctx = "" /\ AreAllJobsCompleted(worker[w].totalJobs, completedJobs)
          THEN /\ worker' = [worker EXCEPT ![w].pc = "set_ready"]
               /\ cjReturns' = cjReturns
          ELSE /\ worker' = [worker EXCEPT ![w] =
                     [Return(w, "nil") EXCEPT !.err = worker[w].ctx]]
               /\ cjReturns' = cjReturns \cup {<<worker[w].job.ID, "nil">>}
    /\ UNCHANGED <<videos, jobs, queue, objects, sched, enq, deq, storage, statusLog>>

\* VideoProcessor.CompleteJob, allCompleted: UpdateVideoStatus(ctx, videoID, "ready");
\* its error is logged, CompleteJob returns nil.
SetVideoReady(w) ==
    /\ worker[w].pc = "set_ready"
    /\ LET r == UpdateVideoStatus(worker[w].ctx, videos, worker[w].videoID, VideoStatusReady)
           v == ObjectIDFromHex(worker[w].videoID).id
       IN /\ videos' = r.videos
          /\ statusLog' = IF v \in DOMAIN r.videos
                          THEN Logged(statusLog, v, r.videos[v].status)
                          ELSE statusLog
    /\ worker' = [worker EXCEPT ![w] = [Return(w, "nil") EXCEPT !.setReady = TRUE]]
    /\ cjReturns' = cjReturns \cup {<<worker[w].job.ID, "nil">>}
    /\ UNCHANGED <<jobs, queue, objects, sched, enq, deq, storage>>

\* ------------------------------------------------------------------- next
Next ==
    \/ \E v \in Videos : UploadVideo(v)
    \/ \E v \in Videos : ScheduleGetVideo(v)
    \/ \E v \in Videos : ScheduleUpdateStatus(v)
    \/ \E v \in Videos : ScheduleCreateJob(v)
    \/ \E v \in Videos : SchedulePublishJob(v)
    \/ \E w \in Workers : PollQueue(w)
    \/ \E w \in Workers : BackOff(w)
    \/ \E w \in Workers : StartJob(w)
    \/ \E w \in Workers : Dispatch(w)
    \/ \E w \in Workers : Download(w)
    \/ \E w \in Workers : RunTool(w)
    \/ \E w \in Workers : Upload(w)
    \/ \E w \in Workers : RecordArtifact(w)
    \/ \E w \in Workers : RecordFailure(w)
    \/ \E w \in Workers : CompleteJob(w)
    \/ \E w \in Workers : CompleteGetJob(w)
    \/ \E w \in Workers : CountTotal(w)
    \/ \E w \in Workers : CountCompleted(w)
    \/ \E w \in Workers : SetVideoReady(w)

\* The pipeline while MongoDB, Redis and the worker processes stay up.
Spec == Init /\ [][Next]_vars

\* ------------------------------------------------- faults of the fan-out
NextFaults ==
    \/ Next
    \/ \E v \in Videos : ScheduleCreateJobFails(v)
    \/ \E v \in Videos : SchedulePublishJobFails(v)

\* The pipeline with a job store and a queue that may fail the scheduler.
SpecFaults == Init /\ [][NextFaults]_vars

\* ------------------------------------------------------- Redis outages
NextOutage ==
    \/ Next
    \/ \E w \in Workers : PollQueueDown(w)

\* The pipeline with a Redis that the workers may fail to reach.
SpecOutage == Init /\ [][NextOutage]_vars

\* ------------------------------------------------------- worker crashes
\* The worker process dies (kill -9, OOM, node loss) wherever it stands; it
\* takes no further step.
Crash(w) ==
    /\ worker[w].pc # "crashed"
    /\ worker' = [worker EXCEPT ![w].pc = "crashed"]
    /\ UNCHANGED <<videos, jobs, queue, objects, sched, enq, deq, cjReturns,
                   storage, statusLog>>

NextCrash ==
    \/ Next
    \/ \E w \in Workers : Crash(w)

\* The pipeline with worker processes that may die.
SpecCrash == Init /\ [][NextCrash]_vars

\* ------------------------------------------------------------ progress
\* A step of the upload request for video v.
SchedulerStep(v) ==
    \/ ScheduleGetVideo(v) \/ ScheduleUpdateStatus(v)
    \/ ScheduleCreateJob(v) \/ SchedulePublishJob(v)

\* A step of worker w's process.
WorkerStep(w) ==
    \/ PollQueue(w) \/ BackOff(w) \/ StartJob(w) \/ Dispatch(w) \/ Download(w)
    \/ RunTool(w) \/ Upload(w) \/ RecordArtifact(w) \/ RecordFailure(w)
    \/ CompleteJob(w) \/ CompleteGetJob(w) \/ CountTotal(w) \/ CountCompleted(w)
    \/ SetVideoReady(w)

\* Every worker process that can take a step keeps running.
WorkersRun == \A w \in Workers : WF_vars(WorkerStep(w))

\* The pipeline with its request handlers and worker processes running on.
SpecLive ==
    /\ Init /\ [][Next]_vars
    /\ \A v \in Videos : WF_vars(SchedulerStep(v))
    /\ WorkersRun

\* ------------------------------------------------------ store outage
\* The error of a store call that cannot reach MongoDB; the call changes
\* nothing.
StoreDown == "server selection error: connection refused"

\* processJobs' failure branch while MongoDB cannot be reached: FailJob
\* returns an error, which is logged; return processErr.
RecordFailureDown(w) ==
    /\ worker[w].pc = "fail"
    /\ worker' = [worker EXCEPT ![w] =
          [Return(w, worker[w].processErr) EXCEPT !.err = StoreDown]]
    /\ UNCHANGED <<videos, jobs, queue, objects, sched, enq, deq, cjReturns,
                   storage, statusLog>>

\* A success branch that pushes the job's message back on the list when the
\* write of completed fails.
CompleteJobDownRequeue(w) ==
    /\ worker[w].pc = "complete"
    /\ worker' = [worker EXCEPT ![w] = Return(w, StoreDown)]
    /\ cjReturns' = cjReturns \cup {<<worker[w].job.ID, StoreDown>>}
    /\ queue' = Enqueue(queue, Marshal(worker[w].job))
    /\ UNCHANGED <<videos, jobs, objects, sched, enq, deq, storage, statusLog>>

\* processJobs' success branch while MongoDB cannot be reached: CompleteJob's
\* UpdateJobStatus returns an error, CompleteJob returns it, processJobs logs
\* and returns it.
CompleteJobDown(w) ==
    /\ worker[w].pc = "complete"
    /\ worker' = [worker EXCEPT ![w] = Return(w, StoreDown)]
    /\ cjReturns' = cjReturns \cup {<<worker[w].job.ID, StoreDown>>}
    /\ UNCHANGED <<videos, jobs, queue, objects, sched, enq, deq, storage, statusLog>>

NextStoreDown ==
    \/ Next
    \/ \E w \in Workers : RecordFailureDown(w)
    \/ \E w \in Workers : CompleteJobDown(w)

\* The pipeline with a job store that may be unreachable when a worker
\* records an outcome.
SpecStoreDown == Init /\ [][NextStoreDown]_vars

\* A CompleteJob that returns the error of its GetJob.
CompleteGetJobDownFails(w) ==
    /\ worker[w].pc = "getjob"
    /\ worker' = [worker EXCEPT ![w] = [Return(w, StoreDown) EXCEPT !.err = StoreDown]]
    /\ cjReturns' = cjReturns \cup {<<worker[w].job.ID, StoreDown>>}
    /\ UNCHANGED <<videos, jobs, queue, objects, sched, enq, deq, storage, statusLog>>

\* VideoProcessor.CompleteJob while MongoDB cannot be reached for GetJob: the
\* error is logged, CompleteJob returns nil.
CompleteGetJobDown(w) ==
    /\ worker[w].pc = "getjob"
    /\ worker' = [worker EXCEPT ![w] = [Return(w, "nil") EXCEPT !.err = StoreDown]]
    /\ cjReturns' = cjReturns \cup {<<worker[w].job.ID, "nil">>}
    /\ UNCHANGED <<videos, jobs, queue, objects, sched, enq, deq, storage, statusLog>>

\* MongoClient.AreAllJobsCompleted while MongoDB cannot be reached for one of
\* its two counts: it returns false and the error, CompleteJob logs it and
\* returns nil.
CountDown(w) ==
    /\ worker[w].pc \in {"count", "count_completed"}
    /\ worker' = [worker EXCEPT ![w] = [Return(w, "nil") EXCEPT !.err = StoreDown]]
    /\ cjReturns' = cjReturns \cup {<<worker[w].job.ID, "nil">>}
    /\ UNCHANGED <<videos, jobs, queue, objects, sched, enq, deq, storage, statusLog>>

NextAggregatorDown ==
    \/ Next
    \/ \E w \in Workers : CompleteGetJobDown(w)
    \/ \E w \in Workers : CountDown(w)

\* The pipeline with a job store that may be unreachable for the reads of
\* the aggregator.
SpecAggregatorDown == Init /\ [][NextAggregatorDown]_vars

\* A processJobs that goes on to the executor when StartJob failed.
StartJobDownIgnored(w) ==
    /\ worker[w].pc = "start"
    /\ worker' = [worker EXCEPT ![w].pc = "exec"]
    /\ UNCHANGED <<videos, jobs, queue, objects, sched, enq, deq, cjReturns,
                   storage, statusLog>>

\* processJobs while MongoDB cannot be reached for StartJob: the error is
\* logged and returned.
StartJobDown(w) ==
    /\ worker[w].pc = "start"
    /\ worker' = [worker EXCEPT ![w] = Return(w, StoreDown)]
    /\ UNCHANGED <<videos, jobs, queue, objects, sched, enq, deq, cjReturns,
                   storage, statusLog>>

NextStartDown ==
    \/ Next
    \/ \E w \in Workers : StartJobDown(w)

\* The pipeline with a job store that may be unreachable when a worker
\* marks a job processing.
SpecStartDown == Init /\ [][NextStartDown]_vars

\* ------------------------------------------------------ backend crash
\* The backend process dies in ScheduleProcessingJobs between jobRepo.Create
\* of the i-th job and the publish of its message.
BackendCrash(v) ==
    /\ sched[v].pc = "publish"
    /\ sched' = [sched EXCEPT ![v].pc = "crashed"]
    /\ UNCHANGED <<videos, jobs, queue, objects, worker, enq, deq, cjReturns,
                   storage, statusLog>>

NextBackendCrash ==
    \/ Next
    \/ \E v \in Videos : BackendCrash(v)

\* The pipeline with a backend that may die between persisting a job and
\* publishing it.
SpecBackendCrash == Init /\ [][NextBackendCrash]_vars

\* ------------------------------------------------ the worker on its own
\* The worker is a program of its own: what it finds on "video_jobs" is its
\* input. Two messages wait on the list, each of a type and a quality drawn
\* from these sets, their jobs pending in the store, the video processing.
MessageTypes == {JobTypeTranscode, JobTypeThumbnail, "resize"}
MessageQualities == {"480p", "720p", "1080p", "4k"}

MessageSpecs ==
    {[type |-> t, quality |-> ""] : t \in MessageTypes \ {JobTypeTranscode}} \cup
    {[type |-> JobTypeTranscode, quality |-> q] : q \in MessageQualities}

\* The second message is one of four kinds: the message of a job that is
\* in the store, the message of a job that is not in the store, bytes that
\* are no JSON document, the message JobPublisher.PublishJob builds from a
\* stored transcode job whose payload has no quality.
InputKinds == {"stored", "absent", "undecodable", "no_quality"}
Undecodable == <<"{">>
NoQualityPayload == {<<"video_id", Hex(1)>>}

InitWorker ==
    \E s1, s2 \in MessageSpecs, kind \in InputKinds :
        LET m1 == Marshal(PublishedMessage(1, 1, s1))
            m2 == CASE kind = "undecodable" -> Undecodable
                    [] kind = "no_quality" ->
                          Marshal(JobMessage(Hex(2), Hex(1), JobTypeTranscode,
                                             NoQualityPayload))
                    [] OTHER -> Marshal(PublishedMessage(1, 2, s2))
        IN /\ kind \in {"undecodable", "no_quality"} => s2 = s1
           /\ videos = <<UpdateStatus(NewVideo, VideoStatusProcessing)>>
           /\ jobs = CASE kind = "stored" ->
                          (1 :> NewJob(1, s1.type, JobPayload(Hex(1), s1))) @@
                          (2 :> NewJob(1, s2.type, JobPayload(Hex(1), s2)))
                       [] kind = "no_quality" ->
                          (1 :> NewJob(1, s1.type, JobPayload(Hex(1), s1))) @@
                          (2 :> NewJob(1, JobTypeTranscode, NoQualityPayload))
                       [] OTHER -> (1 :> NewJob(1, s1.type, JobPayload(Hex(1), s1)))
           /\ queue = Enqueue(Enqueue(<<>>, m1), m2)
           /\ enq = <<m1, m2>>
           /\ objects = {OriginalObject(Hex(1))}
           /\ sched = [v \in Videos |-> [IdleSched EXCEPT !.pc = "external"]]
           /\ worker = [w \in Workers |-> IdleWorker]
           /\ deq = <<>>
           /\ cjReturns = {}
           /\ storage = {}
           /\ statusLog = <<<<VideoStatusUploaded, VideoStatusProcessing>>>>

NextWorker ==
    \/ \E w \in Workers : PollQueue(w)
    \/ \E w \in Workers : BackOff(w)
    \/ \E w \in Workers : StartJob(w)
    \/ \E w \in Workers : Dispatch(w)
    \/ \E w \in Workers : Download(w)
    \/ \E w \in Workers : RunTool(w)
    \/ \E w \in Workers : Upload(w)
    \/ \E w \in Workers : RecordArtifact(w)
    \/ \E w \in Workers : RecordFailure(w)
    \/ \E w \in Workers : CompleteJob(w)
    \/ \E w \in Workers : CompleteGetJob(w)
    \/ \E w \in Workers : CountTotal(w)
    \/ \E w \in Workers : CountCompleted(w)
    \/ \E w \in Workers : SetVideoReady(w)

\* The worker program working off its input.
SpecWorker == InitWorker /\ [][NextWorker]_vars

\* The worker program working off its input, its processes running on.
SpecWorkerLive == InitWorker /\ [][NextWorker]_vars /\ WorkersRun

\* ------------------------------------------------------------- shutdown
\* main: a signal arrives on sigChan, cancel() is called.
Shutdown(w) ==
    /\ worker[w].ctx = Background
    /\ worker[w].pc \notin {"stopped", "exited"}
    /\ worker' = [worker EXCEPT ![w].ctx = Canceled]
    /\ UNCHANGED <<videos, jobs, queue, objects, sched, enq, deq, cjReturns,
                   storage, statusLog>>

\* The loop's select at the head of an iteration: case <-ctx.Done(): return.
LoopExit(w) ==
    /\ worker[w].pc = "poll"
    /\ worker[w].ctx = Canceled
    /\ worker' = [worker EXCEPT ![w].pc = "stopped"]
    /\ UNCHANGED <<videos, jobs, queue, objects, sched, enq, deq, cjReturns,
                   storage, statusLog>>

\* main after cancel(): time.Sleep(2 * time.Second), then main returns and
\* the process ends, wherever the loop's goroutine stands.
Exit(w) ==
    /\ worker[w].ctx = Canceled
    /\ worker[w].pc # "exited"
    /\ worker' = [worker EXCEPT ![w].pc = "exited"]
    /\ UNCHANGED <<videos, jobs, queue, objects, sched, enq, deq, cjReturns,
                   storage, statusLog>>

NextShutdown ==
    \/ NextWorker
    \/ \E w \in Workers : Shutdown(w)
    \/ \E w \in Workers : LoopExit(w)
    \/ \E w \in Workers : Exit(w)

\* The worker program working off its input and told to shut down.
SpecShutdown == InitWorker /\ [][NextShutdown]_vars

\* ================================================================ claims
JobsOf(v) == {j \in DOMAIN jobs : jobs[j].video_id = v}

\* The number of messages in the sequence e (the queue, or the pushes so far)
\* that carry job j's id, and the number of pops in d that handed one out.
Enqueued(e, j) == Cardinality({i \in DOMAIN e : e[i][1] = Hex(j)})
Delivered(d, j) == Cardinality({i \in DOMAIN d : d[i][2][1] = Hex(j)})

CompleteJobReturned(j) == \E r \in cjReturns : r[1] = Hex(j)

AllExecuted(v) ==
    /\ sched[v].pc = "done"
    /\ \A j \in JobsOf(v) : CompleteJobReturned(j)

\* C1: when the fan-out of a video is done and the CompleteJob call of every
\* one of its jobs has returned, whatever the order and the interleaving of
\* the workers, the video's status is ready and every one of those calls
\* returned nil.
C1_AllCompletedMakesReady ==
    \A v \in DOMAIN videos :
        AllExecuted(v) =>
            /\ videos[v].status = VideoStatusReady
            /\ \A r \in cjReturns :
                  (\E j \in JobsOf(v) : r[1] = Hex(j)) => r[2] = "nil"

\* All jobs of a video executed, and each worker's last CompleteJob ran the
\* aggregator to the point of writing ready: the double write.
C1_Witness ==
    \E v \in DOMAIN videos :
        /\ AllExecuted(v)
        /\ videos[v].status = VideoStatusReady
        /\ \A w \in Workers : worker[w].setReady

\* C2: a video whose status is ready owns at least one job and all the jobs
\* it owns are completed, in every reachable state.
C2_ReadyOnlyWhenAllCompleted ==
    \A v \in DOMAIN videos :
        videos[v].status = VideoStatusReady =>
            /\ JobsOf(v) # {}
            /\ \A j \in JobsOf(v) : jobs[j].status = JobStatusCompleted

\* C3: the step that stores a job as failed leaves the owning video failed.
C3_JobFailureFailsVideo ==
    [][\A j \in DOMAIN jobs :
          (jobs[j].status # JobStatusFailed /\ jobs'[j].status = JobStatusFailed)
          => videos'[jobs[j].video_id].status = VideoStatusFailed]_vars

\* C4: every message put on the queue is either still on it or was handed out
\* by exactly one pop, never by two, and the job of a message handed out is
\* worked on by the worker that popped it and by no other.
C4_ExactlyOneWorker ==
    /\ \A j \in DOMAIN jobs :
          /\ Delivered(deq, j) <= 1
          /\ Enqueued(queue, j) + Delivered(deq, j) = Enqueued(enq, j)
    /\ \A i \in DOMAIN deq :
          LET w == deq[i][1]
              id == ObjectIDFromHex(deq[i][2][1]).id
          IN IF jobs[id].status = JobStatusPending
             THEN worker[w].pc = "start" /\ worker[w].job.ID = deq[i][2][1]
             ELSE jobs[id].worker_id = w

\* All four messages were handed out, to two different workers.
C4_Witness ==
    /\ Len(deq) = Len(FanOut)
    /\ \E i, k \in DOMAIN deq : deq[i][1] # deq[k][1]
    /\ \A j \in DOMAIN jobs : jobs[j].status # JobStatusPending

\* C5: the step that stores a job as failed leaves, as the error message of
\* the owning video, the error message stored on that job.
C5_VideoErrorIsJobError ==
    [][\A j \in DOMAIN jobs :
          (jobs[j].status # JobStatusFailed /\ jobs'[j].status = JobStatusFailed)
          => VideoErrorMessage(jobs[j].video_id)' = jobs'[j].error_message]_vars

\* C6: a video's status changes only uploaded -> processing, processing ->
\* ready and processing -> failed; nothing changes a ready or a failed video.
C6_VideoStatusOrder ==
    [][\A v \in DOMAIN videos :
          /\ v \in DOMAIN videos'
          /\ videos'[v].status # videos[v].status =>
                <<videos[v].status, videos'[v].status>> \in
                    {<<VideoStatusUploaded, VideoStatusProcessing>>,
                     <<VideoStatusProcessing, VideoStatusReady>>,
                     <<VideoStatusProcessing, VideoStatusFailed>>}]_vars

\* A ready video on which one worker's aggregator has written ready and
\* another worker is about to write again.
C6_Witness ==
    \E v \in DOMAIN videos, w1, w2 \in Workers :
        /\ videos[v].status = VideoStatusReady
        /\ worker[w1].setReady
        /\ worker[w2].pc = "set_ready" /\ worker[w2].videoID = Hex(v)

\* C7: once a job is stored completed or failed, no step changes its status,
\* progress, error_message or completed_at, puts a message for it on the queue
\* or hands one out.
C7_TerminalJobFrozen ==
    [][\A j \in DOMAIN jobs :
          jobs[j].status \in {JobStatusCompleted, JobStatusFailed} =>
              /\ j \in DOMAIN jobs'
              /\ jobs'[j].status = jobs[j].status
              /\ jobs'[j].progress = jobs[j].progress
              /\ jobs'[j].error_message = jobs[j].error_message
              /\ jobs'[j].completed_at = jobs[j].completed_at
              /\ Enqueued(enq', j) = Enqueued(enq, j)
              /\ Delivered(deq', j) = Delivered(deq, j)]_vars

\* Every job of a finished fan-out is terminal, one completed and one failed,
\* and the workers are back at their poll.
C7_Witness ==
    \E v \in DOMAIN videos :
        /\ sched[v].pc = "done"
        /\ \A j \in JobsOf(v) : jobs[j].status \in {JobStatusCompleted, JobStatusFailed}
        /\ \E j, k \in JobsOf(v) : jobs[j].status = JobStatusCompleted
                                   /\ jobs[k].status = JobStatusFailed
        /\ \A w \in Workers : worker[w].pc = "poll" /\ worker[w].ret # "none"

\* C8: the messages are handed out in the order they were put on the queue:
\* the i-th pop returns the i-th push, and the list holds, from its right end
\* (the head) to its left end (the tail), the pushes not yet popped in order.
C8_Fifo ==
    /\ Len(deq) <= Len(enq)
    /\ \A i \in DOMAIN deq : deq[i][2] = enq[i]
    /\ Len(queue) = Len(enq) - Len(deq)
    /\ \A i \in DOMAIN queue : queue[Len(queue) + 1 - i] = enq[Len(deq) + i]

\* Two messages were popped while two more were waiting on the list.
C8_Witness ==
    /\ Len(deq) >= 2
    /\ Len(queue) >= 2

\* C9: a poll of the empty queue gets no item and no error, leaves the queue
\* as it is, and takes the worker back to its poll with nil returned and no
\* job, video, object or delivery touched.
C9_EmptyPoll ==
    [][\A w \in Workers :
          (Len(queue) = 0 /\ worker[w].pc = "poll" /\ worker'[w] # worker[w]) =>
              /\ worker'[w].pc = "poll"
              /\ worker'[w].err = ""
              /\ worker'[w].job = NoJob
              /\ worker'[w].ret = "nil"
              /\ queue' = queue
              /\ jobs' = jobs /\ videos' = videos /\ objects' = objects
              /\ deq' = deq]_vars

\* A worker has polled the queue before anything was ever handed out, got
\* nothing, returned nil and stands at its poll again.
C9_Witness ==
    \E w \in Workers :
        /\ Len(deq) = 0 /\ Len(queue) = 0
        /\ worker[w].pc = "poll" /\ worker[w].ret = "nil" /\ worker[w].err = ""

\* C10: no job of a video exists before the video's status was set to
\* processing; a job not written since its creation is pending with progress
\* 0 and no worker; and when ScheduleProcessingJobs has returned nil the
\* video owns exactly four jobs, one thumbnail job and one transcode job for
\* each of 480p, 720p and 1080p, with exactly one message pushed per job and
\* four in all for the video.
C10_FanOutOfFour ==
    \A v \in DOMAIN videos :
        /\ JobsOf(v) # {} => videos[v].status # VideoStatusUploaded
        /\ \A j \in JobsOf(v) :
              jobs[j].updated_at = jobs[j].created_at =>
                  /\ jobs[j].status = JobStatusPending
                  /\ jobs[j].progress = 0
                  /\ jobs[j].worker_id = 0
        /\ sched[v].pc = "done" =>
              /\ Cardinality(JobsOf(v)) = 4
              /\ {<<jobs[j].type, jobs[j].payload \ {<<"video_id", Hex(v)>>}>> : j \in JobsOf(v)}
                    = {<<"thumbnail", {}>>,
                       <<"transcode", {<<"quality", "480p">>}>>,
                       <<"transcode", {<<"quality", "720p">>}>>,
                       <<"transcode", {<<"quality", "1080p">>}>>}
              /\ \A j \in JobsOf(v) :
                    /\ Enqueued(enq, j) = 1
                    /\ \A i \in DOMAIN enq :
                          enq[i][1] = Hex(j) =>
                              /\ enq[i][2] = Hex(v)
                              /\ enq[i][3] = jobs[j].type
              /\ Cardinality({i \in DOMAIN enq : enq[i][2] = Hex(v)}) = 4

\* ScheduleProcessingJobs has returned and no worker has taken a job yet.
C10_Witness ==
    \E v \in DOMAIN videos :
        /\ sched[v].pc = "done"
        /\ videos[v].status = VideoStatusProcessing
        /\ Len(queue) = Len(FanOut)
        /\ \A j \in JobsOf(v) : jobs[j].status = JobStatusPending

\* The error the scheduler returns when the create of its i-th job failed.
CreateFailed(v) ==
    /\ sched[v].pc = "error"
    /\ sched[v].err = ScheduleError("create", FanOut[sched[v].i],
                          Errorf("failed to create job", "server selection timeout"))

\* C11: every message that was ever pushed on the queue, and so every message
\* on it, carries the id of a job that is in the job store, of the video the
\* message names; and the job whose create failed has no message.
C11_PersistThenPublish ==
    /\ \A i \in DOMAIN queue : \E k \in DOMAIN enq : enq[k] = queue[i]
    /\ \A i \in DOMAIN enq :
          LET oid == ObjectIDFromHex(enq[i][1])
          IN /\ oid.err = ""
             /\ oid.id \in DOMAIN jobs
             /\ Hex(jobs[oid.id].video_id) = enq[i][2]
    /\ \A v \in DOMAIN videos :
          CreateFailed(v) => Enqueued(enq, NewObjectID(v, sched[v].i)) = 0

\* The create of the third job failed and stored nothing: two messages were
\* pushed, for the two jobs stored before.
C11_Witness ==
    \E v \in DOMAIN videos :
        /\ CreateFailed(v)
        /\ sched[v].i = 3
        /\ NewObjectID(v, 3) \notin DOMAIN jobs
        /\ Len(enq) = 2

\* C12: a message that was handed out is never on the queue again and is
\* never handed out again; and the job held by a worker that crashed is
\* changed by no step and taken by no other worker, so a job that was
\* processing at the crash stays processing.
C12_NoRedelivery ==
    [][/\ \A j \in DOMAIN jobs :
             Delivered(deq, j) >= 1 =>
                 /\ Enqueued(queue', j) = 0
                 /\ Delivered(deq', j) = Delivered(deq, j)
       /\ \A w \in Workers :
             (worker[w].pc = "crashed" /\ worker[w].job # NoJob) =>
                 LET j == ObjectIDFromHex(worker[w].job.ID).id
                 IN /\ worker'[w] = worker[w]
                    /\ jobs'[j] = jobs[j]
                    /\ \A o \in Workers \ {w} : worker'[o].job.ID # worker[w].job.ID]_vars

\* A worker crashed while its job was processing; the fan-out is done, the
\* queue is empty, every other job is terminal and the other worker has
\* polled the empty queue: the job is stuck in processing.
C12_Witness ==
    \E w \in Workers, j \in DOMAIN jobs :
        /\ worker[w].pc = "crashed"
        /\ worker[w].job.ID = Hex(j)
        /\ jobs[j].status = JobStatusProcessing
        /\ sched[jobs[j].video_id].pc = "done"
        /\ Len(queue) = 0
        /\ \A k \in DOMAIN jobs \ {j} :
              jobs[k].status \in {JobStatusCompleted, JobStatusFailed}
        /\ \A o \in Workers \ {w} :
              worker[o].pc = "poll" /\ worker[o].ret = "nil" /\ worker[o].job = NoJob

\* C13: a job whose message has a type other than transcode and thumbnail
\* gets no object-storage call, goes from processing to failed and nowhere
\* else, and is stored failed with the error text "unknown job type: <type>",
\* which is the error the worker's processJobs returns.
C13_UnknownTypeFails ==
    \A j \in DOMAIN jobs :
        jobs[j].type \notin {JobTypeTranscode, JobTypeThumbnail} =>
            /\ \A c \in storage : c[1] # Hex(j)
            /\ jobs[j].status \in {JobStatusPending, JobStatusProcessing, JobStatusFailed}
            /\ jobs[j].status = JobStatusFailed =>
                  jobs[j].error_message = "unknown job type: " \o jobs[j].type
            /\ jobs[j].status = JobStatusProcessing =>
                  \E w \in Workers :
                      /\ worker[w].job.ID = Hex(j)
                      /\ worker[w].pc \in {"exec", "fail"}
                      /\ worker[w].pc = "fail" =>
                            worker[w].processErr = "unknown job type: " \o jobs[j].type
            /\ (jobs[j].status = JobStatusPending /\ Delivered(deq, j) = 1) =>
                  \E w \in Workers : worker[w].job.ID = Hex(j) /\ worker[w].pc = "start"

\* A resize job is stored failed and its worker, having returned the error
\* and slept its back-off, is at its poll again.
C13_Witness ==
    \E j \in DOMAIN jobs, w \in Workers :
        /\ jobs[j].type = "resize"
        /\ jobs[j].status = JobStatusFailed
        /\ jobs[j].worker_id = w
        /\ worker[w].pc = "poll"
        /\ worker[w].ret = "unknown job type: resize"

\* Every job of the video is completed and its status is ready: the
\* aggregator has converged.
Converged(v) ==
    /\ sched[v].pc = "done"
    /\ \A j \in JobsOf(v) : jobs[j].status = JobStatusCompleted
    /\ videos[v].status = VideoStatusReady

\* C14: once the aggregator has converged on a video, every step, of an
\* aggregator run that was under way or of one that starts later, leaves the
\* video's status ready, and every CompleteJob call that returns for a job
\* of the video returns nil.
C14_AggregatorIdempotent ==
    [][\A v \in DOMAIN videos :
          Converged(v) =>
              /\ videos'[v].status = VideoStatusReady
              /\ \A r \in cjReturns' \ cjReturns :
                    (\E j \in JobsOf(v) : r[1] = Hex(j)) => r[2] = "nil"]_vars

\* The aggregator has converged through one worker's run, and another
\* worker's run for the same video has not made its scan yet.
C14_Witness ==
    \E v \in DOMAIN videos, w \in Workers :
        /\ Converged(v)
        /\ worker[w].pc = "count" /\ worker[w].videoID = Hex(v)
        /\ \E o \in Workers \ {w} : worker[o].setReady /\ worker[o].pc = "poll"

\* C15: when the fan-out of a video is done and its four jobs are completed,
\* the video has three formats, one for each of 480p, 720p and 1080p, and one
\* thumbnail, and its status went uploaded, processing and, once the
\* CompleteJob calls have returned, ready, in that order and through no other.
C15_EndToEnd ==
    \A v \in DOMAIN videos :
        (sched[v].pc = "done" /\ \A j \in JobsOf(v) : jobs[j].status = JobStatusCompleted) =>
            /\ Len(videos[v].formats) = 3
            /\ {videos[v].formats[i].quality : i \in DOMAIN videos[v].formats}
                  = {"480p", "720p", "1080p"}
            /\ Len(videos[v].thumbnails) = 1
            /\ statusLog[v] \in
                  {<<VideoStatusUploaded, VideoStatusProcessing>>,
                   <<VideoStatusUploaded, VideoStatusProcessing, VideoStatusReady>>}
            /\ statusLog[v][Len(statusLog[v])] = videos[v].status
            /\ AllExecuted(v) => videos[v].status = VideoStatusReady

\* The four jobs completed and their CompleteJob calls returned, the formats
\* recorded in another order than the jobs were created.
C15_Witness ==
    \E v \in DOMAIN videos :
        /\ AllExecuted(v)
        /\ \A j \in JobsOf(v) : jobs[j].status = JobStatusCompleted
        /\ videos[v].formats[1].quality # "480p"
        /\ statusLog[v] = <<VideoStatusUploaded, VideoStatusProcessing, VideoStatusReady>>

\* The value that follows flag in an argument list.
ArgAfter(args, flag) == args[(CHOOSE i \in DOMAIN args : args[i] = flag) + 1]

\* The worker has built the ffmpeg arguments of the transcode job it holds.
BuiltTranscodeArgs(w) ==
    /\ worker[w].job.Type = JobTypeTranscode
    /\ worker[w].args # <<>>

C17_ReadmeBitrates ==
    \A w \in Workers :
        (BuiltTranscodeArgs(w) /\ Quality(worker[w].job.Payload) \in {"480p", "720p", "1080p"}) =>
            ArgAfter(worker[w].args, "-maxrate") =
                CASE Quality(worker[w].job.Payload) = "480p" -> "1M"
                  [] Quality(worker[w].job.Payload) = "720p" -> "2.5M"
                  [] Quality(worker[w].job.Payload) = "1080p" -> "4.5M"

\* C18: when processJobs returns for a job that was processing, after the
\* context was canceled and with the process still running, the job is stored
\* completed or failed, and a failure stored is not the cancellation's.
C18_ShutdownLetsTaskFinish ==
    [][\A w \in Workers :
          (/\ worker[w].ctx = Canceled
           /\ worker[w].job # NoJob
           /\ ObjectIDFromHex(worker[w].job.ID).id \in DOMAIN jobs
           /\ jobs[ObjectIDFromHex(worker[w].job.ID).id].status = JobStatusProcessing
           /\ worker'[w].job = NoJob
           /\ worker'[w].pc # "exited") =>
              LET j == ObjectIDFromHex(worker[w].job.ID).id
              IN /\ jobs'[j].status \in {JobStatusCompleted, JobStatusFailed}
                 /\ jobs'[j].status = JobStatusFailed =>
                       jobs'[j].error_message \notin
                           {ExecError(jobs[j].type, step, Canceled) :
                               step \in {"get", "download", "tool", "upload", "record"}}]_vars

\* C19: an iteration of the loop in which Dequeue returned an error other
\* than redis.Nil takes the worker to its back-off sleep, and changes no job
\* and no video.
C19_OutageBacksOff ==
    [][\A w \in Workers :
          (/\ worker[w].pc = "poll"
           /\ worker'[w] # worker[w]
           /\ worker'[w].err # "") =>
              /\ worker'[w].pc = "sleep"
              /\ jobs' = jobs
              /\ videos' = videos]_vars

\* C20: the aggregator decides to write ready, at the last read of its scan,
\* only when the video owns at least one job and every job it owns is
\* completed; a video's status becomes ready by no other step.
C20_ReadyOnlyOnFullScan ==
    [][/\ \A w \in Workers :
             (worker[w].pc = "count_completed" /\ worker'[w].pc = "set_ready") =>
                 LET v == ObjectIDFromHex(worker[w].videoID).id
                 IN /\ JobsOf(v) # {}
                    /\ \A j \in JobsOf(v) : jobs[j].status = JobStatusCompleted
       /\ \A v \in DOMAIN videos :
             (videos[v].status # VideoStatusReady /\ videos'[v].status = VideoStatusReady) =>
                 \E w \in Workers : worker[w].pc = "set_ready" /\ worker'[w].pc = "poll"]_vars

\* The worker the message of job j was handed to in the pops d, 0 when it
\* was handed to none.
DequeuerIn(d, j) ==
    IF \E i \in DOMAIN d : d[i][2][1] = Hex(j)
    THEN d[CHOOSE i \in DOMAIN d : d[i][2][1] = Hex(j)][1]
    ELSE 0

Dequeuer(j) == DequeuerIn(deq, j)

\* The worker is between StartJob and the end of its executor.
Executing(w) == worker[w].pc \in {"exec", "download", "tool", "upload", "record"}

\* C21: while a worker runs the executor of a job, the job is stored
\* processing with the worker_id of that worker, which is the worker the
\* job's message was handed to; and a step that changes a job's document is
\* a step of the worker its message was handed to.
C21_OnlyDequeuerWrites ==
    [][/\ \A w \in Workers :
             Executing(w)' =>
                 LET j == ObjectIDFromHex(worker'[w].job.ID).id
                 IN /\ jobs'[j].status = JobStatusProcessing
                    /\ jobs'[j].worker_id = w
                    /\ DequeuerIn(deq', j) = w
       /\ \A j \in DOMAIN jobs :
             jobs'[j] # jobs[j] =>
                 /\ Dequeuer(j) \in Workers
                 /\ worker[Dequeuer(j)].job.ID = Hex(j)
                 /\ worker'[Dequeuer(j)] # worker[Dequeuer(j)]
                 /\ \A o \in Workers \ {Dequeuer(j)} : worker'[o] = worker[o]]_vars

\* Both workers are inside the executors of two different jobs.
C21_Witness ==
    \E w, o \in Workers :
        /\ w # o
        /\ worker[w].pc = "tool" /\ worker[o].pc = "upload"
        /\ worker[w].job.ID # worker[o].job.ID

\* C22: the step of processJobs' failure branch stores the job failed, with
\* the executor's error text as error_message and completed_at set; and the
\* error_message of a job that is not failed is empty.
C22_FailureRecorded ==
    [][/\ \A w \in Workers :
             (worker[w].pc = "fail" /\ worker'[w].pc # "fail") =>
                 LET j == ObjectIDFromHex(worker[w].job.ID).id
                 IN /\ worker[w].processErr # ""
                    /\ jobs'[j].status = JobStatusFailed
                    /\ jobs'[j].error_message = worker[w].processErr
                    /\ jobs'[j].completed_at # 0
                    /\ worker'[w].ret = worker[w].processErr
       /\ \A j \in DOMAIN jobs' :
             jobs'[j].error_message # "" => jobs'[j].status = JobStatusFailed]_vars

\* A transcode job is stored failed with the text of the failed ffmpeg run,
\* a thumbnail job with the text of the failed upload.
C22_Witness ==
    \E j, k \in DOMAIN jobs :
        /\ jobs[j].status = JobStatusFailed
        /\ jobs[j].error_message = "ffmpeg transcoding failed: exit status 1"
        /\ jobs[j].completed_at # 0
        /\ jobs[k].status = JobStatusFailed
        /\ jobs[k].error_message = "failed to upload thumbnail: connection reset by peer"

\* The worker is inside the aggregator part of CompleteJob.
Aggregating(w) == worker[w].pc \in {"getjob", "count", "count_completed", "set_ready"}

\* C23: a job stored completed has progress 100 and completed_at set, and a
\* worker is in the aggregator only for a job that is stored completed.
C23_CompletedThenAggregate ==
    /\ \A j \in DOMAIN jobs :
          jobs[j].status = JobStatusCompleted =>
              jobs[j].progress = 100 /\ jobs[j].completed_at # 0
    /\ \A w \in Workers :
          Aggregating(w) =>
              jobs[ObjectIDFromHex(worker[w].job.ID).id].status = JobStatusCompleted

\* A worker has stored its job completed and is about to make the
\* aggregator's scan.
C23_Witness ==
    \E w \in Workers :
        /\ worker[w].pc = "count"
        /\ jobs[ObjectIDFromHex(worker[w].job.ID).id].progress = 100

\* C24: the iteration that pops an undecodable message takes it off the
\* list for good, changes no job and no video, and returns the decode error
\* with no job taken up; the loop's next step after its sleep is a new poll,
\* and no step of the worker puts a message on the list.
C24_UndecodableDropped ==
    [][/\ \A w \in Workers :
             (/\ worker[w].pc = "poll"
              /\ worker'[w] # worker[w]
              /\ queue # <<>>
              /\ queue[Len(queue)] = Undecodable) =>
                 /\ queue' = SubSeq(queue, 1, Len(queue) - 1)
                 /\ jobs' = jobs
                 /\ videos' = videos
                 /\ worker'[w].job = NoJob
                 /\ worker'[w].pc = "sleep"
                 /\ worker'[w].ret = "invalid character"
       /\ \A w \in Workers :
             (worker[w].pc = "sleep" /\ worker'[w] # worker[w]) =>
                 /\ worker'[w].pc = "poll"
                 /\ <<jobs', videos', queue'>> = <<jobs, videos, queue>>
       /\ Len(queue') <= Len(queue)]_vars

\* A worker popped the undecodable message, slept and polled again, and the
\* list is empty.
C24_Witness ==
    \E w \in Workers :
        /\ \E i \in DOMAIN deq : deq[i] = <<w, Undecodable>>
        /\ worker[w].ret = "invalid character"
        /\ worker[w].pc = "poll"
        /\ queue = <<>>

\* Some worker holds the message of job j.
Held(j) == \E w \in Workers : worker[w].job.ID = Hex(j)

\* C25: an iteration whose write of the outcome returned an error ends with
\* the job still stored processing, with no store document and no list
\* changed, and with the worker holding no job; a processing job that no
\* worker holds is changed by no later step.
C25_OutcomeWriteNotRetried ==
    [][/\ \A w \in Workers :
             (\/ worker[w].pc = "fail" /\ worker'[w].pc # "fail" /\ worker'[w].err # ""
              \/ worker[w].pc = "complete" /\ worker'[w].pc \notin {"complete", "getjob"}) =>
                 LET j == ObjectIDFromHex(worker[w].job.ID).id
                 IN /\ jobs'[j].status = JobStatusProcessing
                    /\ jobs' = jobs
                    /\ videos' = videos
                    /\ queue' = queue
                    /\ enq' = enq
                    /\ worker'[w].job = NoJob
                    /\ worker'[w].pc = "sleep"
       /\ \A j \in DOMAIN jobs :
             (jobs[j].status = JobStatusProcessing /\ ~Held(j)) => jobs'[j] = jobs[j]]_vars

\* Two jobs are left processing with no worker holding them, one after a
\* failed write of completed, the other after a failed write of failed, and
\* the workers have gone back to polling.
C25_Witness ==
    \E j, k \in DOMAIN jobs :
        /\ j # k
        /\ jobs[j].status = JobStatusProcessing /\ ~Held(j)
        /\ jobs[k].status = JobStatusProcessing /\ ~Held(k)
        /\ <<Hex(j), StoreDown>> \in cjReturns
        /\ \A c \in cjReturns : c[1] # Hex(k)
        /\ \A w \in Workers : worker[w].pc = "poll"
        /\ videos[1].status = VideoStatusProcessing

\* s is an initial part of t.
IsPrefix(s, t) == Len(s) <= Len(t) /\ SubSeq(t, 1, Len(s)) = s

\* Worker w is about to record the artifact of a job of type type for video
\* v, after the upload call of that job was made and with the object stored.
Uploaded(w, v, type, object) ==
    /\ worker[w].pc = "record"
    /\ worker[w].job.Type = type
    /\ worker[w].job.VideoID = Hex(v)
    /\ <<worker[w].job.ID, "put">> \in storage
    /\ object \in objects

\* C26: every step keeps each video's formats and thumbnails as an initial
\* part of the lists after it; a list changes by one entry at its end, in the
\* step of a worker that records the artifact it has uploaded.
C26_ListsOnlyGrow ==
    [][\A v \in DOMAIN videos :
          /\ v \in DOMAIN videos'
          /\ IsPrefix(videos[v].formats, videos'[v].formats)
          /\ IsPrefix(videos[v].thumbnails, videos'[v].thumbnails)
          /\ videos'[v].formats # videos[v].formats =>
                /\ Len(videos'[v].formats) = Len(videos[v].formats) + 1
                /\ \E w \in Workers :
                      /\ Uploaded(w, v, JobTypeTranscode,
                                  videos'[v].formats[Len(videos'[v].formats)].filename)
                      /\ worker'[w].pc = "complete"
          /\ videos'[v].thumbnails # videos[v].thumbnails =>
                /\ Len(videos'[v].thumbnails) = Len(videos[v].thumbnails) + 1
                /\ \E w \in Workers :
                      /\ Uploaded(w, v, JobTypeThumbnail,
                                  videos'[v].thumbnails[Len(videos'[v].thumbnails)])
                      /\ worker'[w].pc = "complete"]_vars

\* Two workers are about to append to the formats of the same video, which
\* hold an entry already.
C26_Witness ==
    \E w1, w2 \in Workers :
        /\ w1 # w2
        /\ worker[w1].pc = "record" /\ worker[w1].job.Type = JobTypeTranscode
        /\ worker[w2].pc = "record" /\ worker[w2].job.Type = JobTypeTranscode
        /\ worker[w1].job.VideoID = worker[w2].job.VideoID
        /\ Len(videos[1].formats) = 1
        /\ Len(videos[1].thumbnails) = 1

\* The job the backend had persisted and not published when it died.
Stranded(v) == NewObjectID(v, sched[v].i)

\* C27: once the backend has died between persisting a job and publishing
\* it, no step changes that job, which is pending, and no step makes its
\* video ready.
C27_StrandedJobBlocksReady ==
    [][\A v \in Videos :
          sched[v].pc = "crashed" =>
              /\ jobs[Stranded(v)].status = JobStatusPending
              /\ jobs'[Stranded(v)] = jobs[Stranded(v)]
              /\ videos[v].status # VideoStatusReady =>
                    videos'[v].status # VideoStatusReady]_vars

\* C28: a job-status write of a worker for a job id that is not in the
\* store changes no document and returns an error: StartJob and CompleteJob
\* end the iteration with it, FailJob has it logged.
C28_MissingJobNotFound ==
    [][\A w \in Workers :
          (/\ worker[w].pc \in {"start", "fail", "complete"}
           /\ worker'[w] # worker[w]
           /\ ObjectIDFromHex(worker[w].job.ID).err = ""
           /\ ObjectIDFromHex(worker[w].job.ID).id \notin DOMAIN jobs) =>
              /\ jobs' = jobs
              /\ IF worker[w].pc = "fail"
                 THEN worker'[w].err # ""
                 ELSE worker'[w].pc = "sleep" /\ worker'[w].ret # "nil"]_vars

\* The progress values a job of type type may be stored with.
ProgressValues(type) ==
    IF type = JobTypeTranscode THEN {0, 10, 30, 80, 100} ELSE {0, 20, 50, 80, 100}

\* C29: a job's stored progress is one of the milestone values of its type,
\* within 0..100, it is 100 only on a completed job, and no step lowers it.
C29_ProgressMilestones ==
    [][\A j \in DOMAIN jobs' :
          /\ jobs'[j].progress \in ProgressValues(jobs'[j].type) \cap (0..100)
          /\ jobs'[j].progress = 100 => jobs'[j].status = JobStatusCompleted
          /\ j \in DOMAIN jobs => jobs'[j].progress >= jobs[j].progress]_vars

\* A thumbnail job is completed at 100, a transcode job has failed at 80 and
\* another transcode job is processing at 30.
C29_Witness ==
    \E j, k, l \in DOMAIN jobs :
        /\ jobs[j].type = JobTypeThumbnail /\ jobs[j].progress = 100
        /\ jobs[k].type = JobTypeTranscode /\ jobs[k].progress = 80
        /\ jobs[k].status = JobStatusFailed
        /\ jobs[l].type = JobTypeTranscode /\ jobs[l].progress = 30
        /\ jobs[l].status = JobStatusProcessing

\* C30: AreAllJobsCompleted returns true only if some state of the store
\* between its two reads had all jobs of the video completed. The jobs of a
\* video are inserted in the order of the fan-out and never deleted, and a
\* completed job stays completed, so the jobs the first read counted are the
\* first totalJobs of the video, and in such a state they were completed and
\* still are at the second read.
C30_ScanSeesOneState ==
    [][\A w \in Workers :
          (worker[w].pc = "count_completed" /\ worker'[w].pc = "set_ready") =>
              LET v == ObjectIDFromHex(worker[w].videoID).id
              IN /\ worker[w].totalJobs > 0
                 /\ \A k \in 1..worker[w].totalJobs :
                       jobs[NewObjectID(v, k)].status = JobStatusCompleted]_vars

\* C31: once ScheduleProcessingJobs has returned an error after it had
\* published at least one job, no step makes the video ready.
C31_PartialFanOutNeverReady ==
    [][\A v \in Videos :
          (sched[v].pc = "error" /\ sched[v].i > 1 /\ videos[v].status # VideoStatusReady) =>
              videos'[v].status # VideoStatusReady]_vars

\* C32: with the workers running on, no signal and no store failure, every
\* job that is stored processing is later stored completed or failed.
C32_ProcessingJobEnds ==
    \A j \in JobIds :
        (j \in DOMAIN jobs /\ jobs[j].status = JobStatusProcessing) ~>
            (j \in DOMAIN jobs /\ jobs[j].status \in {JobStatusCompleted, JobStatusFailed})

\* C33: with the workers running on and no failure of a process, the store
\* or the queue, a fan-out that has returned nil is followed by a state in
\* which the queue is empty and every job of the video has been dequeued
\* and is stored completed or failed.
C33_EveryJobEnds ==
    \A v \in Videos :
        (sched[v].pc = "done") ~>
            (/\ queue = <<>>
             /\ \A j \in JobsOf(v) :
                   /\ Delivered(deq, j) = 1
                   /\ jobs[j].status \in {JobStatusCompleted, JobStatusFailed})

\* The four jobs of a video have been dequeued, some ended completed and some
\* failed, and the queue is empty.
C33_Witness ==
    /\ sched[1].pc = "done"
    /\ queue = <<>>
    /\ Cardinality(JobsOf(1)) = Len(FanOut)
    /\ \A j \in JobsOf(1) :
          Delivered(deq, j) = 1 /\ jobs[j].status \in {JobStatusCompleted, JobStatusFailed}
    /\ \E j, k \in JobsOf(1) :
          jobs[j].status = JobStatusCompleted /\ jobs[k].status = JobStatusFailed

\* C34: when the aggregator's GetJob or one of its counts returns an error,
\* CompleteJob returns nil, the job stays completed and no document and no
\* list changes; and a worker enters the aggregator only in the step that
\* stores the job it holds completed.
C34_AggregatorFailureSwallowed ==
    [][/\ \A w \in Workers :
             (Aggregating(w) /\ ~Aggregating(w)' /\ worker'[w].err # "") =>
                 LET j == ObjectIDFromHex(worker[w].job.ID).id
                 IN /\ worker'[w].ret = "nil"
                    /\ worker'[w].pc = "poll"
                    /\ <<worker[w].job.ID, "nil">> \in cjReturns'
                    /\ jobs' = jobs
                    /\ jobs[j].status = JobStatusCompleted
                    /\ videos' = videos
                    /\ queue' = queue
       /\ \A w \in Workers :
             (~Aggregating(w) /\ Aggregating(w)') =>
                 LET j == ObjectIDFromHex(worker'[w].job.ID).id
                 IN /\ worker[w].pc = "complete"
                    /\ jobs[j].status # JobStatusCompleted
                    /\ jobs'[j].status = JobStatusCompleted]_vars

\* Every job of the video is completed and every CompleteJob call has
\* returned nil, the workers are polling an empty queue, and the video is
\* still processing.
C34_Witness ==
    /\ sched[1].pc = "done"
    /\ queue = <<>>
    /\ Cardinality(JobsOf(1)) = Len(FanOut)
    /\ \A j \in JobsOf(1) :
          jobs[j].status = JobStatusCompleted /\ <<Hex(j), "nil">> \in cjReturns
    /\ \A w \in Workers : worker[w].pc = "poll" /\ worker[w].job = NoJob
    /\ \E w \in Workers : worker[w].err = StoreDown
    /\ videos[1].status = VideoStatusProcessing

\* The message of job j is on the queue q.
Queued(q, j) == \E i \in DOMAIN q : q[i][1] = Hex(j)

\* C35: when StartJob returns an error, the iteration ends with that error,
\* the job still pending, no document, list or object-storage call added and
\* the worker holding no job; the executor is entered only with the job
\* stored processing; a pending job has had no object-storage call,
\* and a pending job that is neither queued nor held is changed by no step.
C35_StartFailureLeavesPending ==
    [][/\ \A w \in Workers :
             (worker[w].pc = "start" /\ worker'[w].pc \notin {"start", "exec"}) =>
                 LET j == ObjectIDFromHex(worker[w].job.ID).id
                 IN /\ jobs' = jobs
                    /\ jobs[j].status = JobStatusPending
                    /\ queue' = queue
                    /\ storage' = storage
                    /\ objects' = objects
                    /\ videos' = videos
                    /\ worker'[w].job = NoJob
                    /\ worker'[w].pc = "sleep"
                    /\ worker'[w].ret \notin {"nil", "none"}
       /\ \A w \in Workers :
             (worker[w].pc = "start" /\ worker'[w].pc = "exec") =>
                 jobs'[ObjectIDFromHex(worker[w].job.ID).id].status = JobStatusProcessing
       /\ \A j \in DOMAIN jobs :
             jobs[j].status = JobStatusPending =>
                 /\ \A c \in storage : c[1] # Hex(j)
                 /\ (~Held(j) /\ ~Queued(queue, j) /\ Delivered(deq, j) = 1) =>
                        (jobs'[j] = jobs[j] /\ ~Queued(queue', j))]_vars

\* A job was dequeued, is still pending, is neither queued nor held, and has
\* had no object-storage call; the worker that had it is polling again.
C35_Witness ==
    \E j \in DOMAIN jobs :
        /\ jobs[j].status = JobStatusPending
        /\ Delivered(deq, j) = 1
        /\ ~Held(j) /\ ~Queued(queue, j)
        /\ \A c \in storage : c[1] # Hex(j)
        /\ worker[Dequeuer(j)].pc = "poll"
        /\ worker[Dequeuer(j)].ret = StoreDown

\* The artifact of job j is recorded on its video.
Recorded(j) ==
    LET v == jobs[j].video_id
    IN IF jobs[j].type = JobTypeTranscode
       THEN \E i \in DOMAIN videos[v].formats :
               /\ videos[v].formats[i].quality = Quality(jobs[j].payload)
               /\ videos[v].formats[i].filename =
                      ProcessedObject(Hex(v), Quality(jobs[j].payload))
       ELSE \E i \in DOMAIN videos[v].thumbnails :
               videos[v].thumbnails[i] = ThumbnailObject(Hex(v))

\* C36: every completed transcode job has an entry of its quality in its
\* video's formats, every completed thumbnail job its entry in the video's
\* thumbnails.
C36_CompletedHasArtifact ==
    \A j \in DOMAIN jobs :
        jobs[j].status = JobStatusCompleted => Recorded(j)

\* A thumbnail job and a transcode job are completed with their artifacts
\* recorded, while another transcode job has failed and left no entry.
C36_Witness ==
    \E j, k, l \in DOMAIN jobs :
        /\ jobs[j].type = JobTypeThumbnail /\ jobs[j].status = JobStatusCompleted
        /\ jobs[k].type = JobTypeTranscode /\ jobs[k].status = JobStatusCompleted
        /\ jobs[l].type = JobTypeTranscode /\ jobs[l].status = JobStatusFailed
        /\ Recorded(j) /\ Recorded(k) /\ ~Recorded(l)

\* C37: every message on the queue is the message of a job that is stored
\* pending; no processing, completed or failed job has a message queued.
C37_QueuedOnlyWhilePending ==
    \A i \in DOMAIN queue :
        /\ ObjectIDFromHex(queue[i][1]).id \in DOMAIN jobs
        /\ jobs[ObjectIDFromHex(queue[i][1]).id].status = JobStatusPending

\* A pending job is queued while other jobs, dequeued, are processing,
\* completed and failed.
C37_Witness ==
    \E j, k, l, m \in DOMAIN jobs :
        /\ Queued(queue, j) /\ jobs[j].status = JobStatusPending
        /\ ~Queued(queue, k) /\ jobs[k].status = JobStatusProcessing
        /\ ~Queued(queue, l) /\ jobs[l].status = JobStatusCompleted
        /\ ~Queued(queue, m) /\ jobs[m].status = JobStatusFailed

\* C38: once a job's started_at is set, no later write changes it, and no
\* later write changes the job's worker_id.
C38_StartedAtWrittenOnce ==
    [][\A j \in DOMAIN jobs :
          jobs[j].started_at # 0 =>
              /\ jobs'[j].started_at = jobs[j].started_at
              /\ jobs'[j].worker_id = jobs[j].worker_id]_vars

====
